---------------------------- MODULE Spec2Model ----------------------------
(***************************************************************************)
(* Model of buck_converter_calculator.py: one run of main() as a state     *)
(* machine (parse the command line, three computations, three prints) and  *)
(* the three formulas as operators.                                        *)
(*                                                                         *)
(* Numbers.  The program computes with Python floats.  The model computes  *)
(* with exact rationals, written  n/d * 2^e2 * 5^e5  with n and d coprime  *)
(* to each other and to 10 (so every decimal literal of the program and    *)
(* every power of ten is exact and small).  IEEE-754 rounding, overflow to *)
(* inf and underflow are not modelled; inf and nan literals on the command *)
(* line are outside the modelled inputs.  What is modelled of Python's     *)
(* arithmetic beyond the operations themselves is that a division by zero  *)
(* raises ZeroDivisionError instead of yielding inf or nan.                *)
(***************************************************************************)
EXTENDS Integers, Sequences, FiniteSets, TLC

(***************************************************************************)
(* Exact rational arithmetic                                               *)
(***************************************************************************)
Abs(i) == IF i < 0 THEN -i ELSE i

Sgn(i) == IF i < 0 THEN -1 ELSE IF i = 0 THEN 0 ELSE 1

Min(a, b) == IF a <= b THEN a ELSE b

RECURSIVE GCD(_, _)
GCD(a, b) == IF b = 0 THEN a ELSE GCD(b, a % b)

RECURSIVE Pow(_, _)
Pow(b, k) == IF k <= 0 THEN 1 ELSE b * Pow(b, k - 1)

\* How many times the prime p divides i (i # 0).
RECURSIVE Val(_, _)
Val(i, p) == IF i % p = 0 THEN 1 + Val(i \div p, p) ELSE 0

Zero == [n |-> 0, d |-> 1, e2 |-> 0, e5 |-> 0]

\* The rational n/d * 2^e2 * 5^e5 (d > 0) in canonical form.
Norm(n, d, e2, e5) ==
    IF n = 0 THEN Zero
    ELSE LET a   == Abs(n)
             n2  == Val(a, 2)
             n5  == Val(a, 5)
             d2  == Val(d, 2)
             d5  == Val(d, 5)
             a1  == a \div (Pow(2, n2) * Pow(5, n5))
             b1  == d \div (Pow(2, d2) * Pow(5, d5))
             g   == GCD(a1, b1)
         IN  [n  |-> Sgn(n) * (a1 \div g),
              d  |-> b1 \div g,
              e2 |-> e2 + n2 - d2,
              e5 |-> e5 + n5 - d5]

\* The integer i, and the decimal literal m * 10^-k.
QInt(i) == Norm(i, 1, 0, 0)

QDec(m, k) == Norm(m, 1, -k, -k)

QNeg(x) == [x EXCEPT !.n = -x.n]

QMul(x, y) ==
    IF x.n = 0 \/ y.n = 0 THEN Zero
    ELSE LET g1 == GCD(Abs(x.n), y.d)
             g2 == GCD(Abs(y.n), x.d)
         IN  [n  |-> (x.n \div g1) * (y.n \div g2),
              d  |-> (x.d \div g2) * (y.d \div g1),
              e2 |-> x.e2 + y.e2,
              e5 |-> x.e5 + y.e5]

\* 1/x for x # 0.
QInv(x) == [n |-> Sgn(x.n) * x.d, d |-> Abs(x.n), e2 |-> -x.e2, e5 |-> -x.e5]

QAdd(x, y) ==
    IF x.n = 0 THEN y
    ELSE IF y.n = 0 THEN x
    ELSE LET e2 == Min(x.e2, y.e2)
             e5 == Min(x.e5, y.e5)
             g  == GCD(x.d, y.d)
             nx == x.n * Pow(2, x.e2 - e2) * Pow(5, x.e5 - e5) * (y.d \div g)
             ny == y.n * Pow(2, y.e2 - e2) * Pow(5, y.e5 - e5) * (x.d \div g)
         IN  Norm(nx + ny, (x.d \div g) * y.d, e2, e5)

QSub(x, y) == QAdd(x, QNeg(y))

\* The sign of x and the order of the rationals (comparisons of results).
QSign(x) == Sgn(x.n)

QLt(x, y) == QSign(QSub(x, y)) < 0

QLe(x, y) == QSign(QSub(x, y)) <= 0

\* round(x * 10^k) to the nearest integer, ties to even.
QRound(x, k) ==
    LET a2 == x.e2 + k
        a5 == x.e5 + k
        N  == x.n * Pow(2, a2) * Pow(5, a5)
        D  == x.d * Pow(2, -a2) * Pow(5, -a5)
        fl == N \div D
        r2 == 2 * (N - fl * D)
    IN  IF r2 < D THEN fl
        ELSE IF r2 > D THEN fl + 1
        ELSE IF fl % 2 = 0 THEN fl ELSE fl + 1

(***************************************************************************)
(* Python values: a float, or a raised exception                           *)
(***************************************************************************)
ZeroDivisionError == [exc |-> "ZeroDivisionError"]

IsExc(v) == "exc" \in DOMAIN v

None == [none |-> TRUE]

IsNone(v) == "none" \in DOMAIN v

\* x ** 2
Sq(x) == QMul(x, x)

\* x / y of two floats.
Div(x, y) == IF y.n = 0 THEN ZeroDivisionError ELSE QMul(x, QInv(y))

(***************************************************************************)
(* pint quantities                                                         *)
(***************************************************************************)
\* The factor of a unit relative to the farad.
UnitFactor(u) == IF u = "uF" THEN QDec(1, 6) ELSE QInt(1)

\* magnitude * ureg.<unit>
Quantity(m, u) == [mag |-> m, unit |-> u]

\* Quantity.to(unit)
To(q, u) == Quantity(QMul(q.mag, QMul(UnitFactor(q.unit), QInv(UnitFactor(u)))), u)

(***************************************************************************)
(* Module-level defaults                                                   *)
(***************************************************************************)
default_input_voltage == QInt(24)

default_output_voltage == QInt(5)

default_output_current == QInt(2)

default_switching_frequency == QInt(500000)

default_efficiency == QDec(9, 1)

default_v_pp_max == QDec(75, 3)

default_i_out_tr_max == QInt(2)

default_v_out_tr_max_allowed == QDec(1, 1)

(***************************************************************************)
(* The formulas                                                            *)
(***************************************************************************)
get_duty_cycle_ignores_efficiency(v_in, v_out, efficiency) ==
    Div(v_out, v_in)

get_duty_cycle_times_efficiency(v_in, v_out, efficiency) ==
    Div(QMul(v_out, efficiency), v_in)

get_duty_cycle(v_in, v_out, efficiency) ==
    Div(v_out, QMul(v_in, efficiency))

get_min_input_capacitance_missing_scale(v_in, v_out, i_out, efficiency, f_sw, V_pp_max) ==
    LET duty_cycle == get_duty_cycle(v_in, v_out, efficiency)
    IN  IF IsExc(duty_cycle) THEN duty_cycle
        ELSE LET c_min == Div(QMul(QMul(QMul(i_out, duty_cycle),
                                        QSub(QInt(1), duty_cycle)), QInt(1000)),
                              QMul(f_sw, V_pp_max))
             IN  IF IsExc(c_min) THEN c_min ELSE Quantity(c_min, "uF")

get_min_input_capacitance_asymmetric(v_in, v_out, i_out, efficiency, f_sw, V_pp_max) ==
    LET duty_cycle == get_duty_cycle(v_in, v_out, efficiency)
    IN  IF IsExc(duty_cycle) THEN duty_cycle
        ELSE LET c_min == Div(QMul(QMul(QMul(QMul(i_out, duty_cycle),
                                             QSub(QInt(2), duty_cycle)),
                                        QInt(1000)), QInt(1000)),
                              QMul(f_sw, V_pp_max))
             IN  IF IsExc(c_min) THEN c_min ELSE Quantity(c_min, "uF")

get_min_input_capacitance_clamped(v_in, v_out, i_out, efficiency, f_sw, V_pp_max) ==
    LET raw == get_duty_cycle(v_in, v_out, efficiency)
    IN  IF IsExc(raw) THEN raw
        ELSE LET duty_cycle == IF QLt(QInt(1), raw) THEN QInt(1)
                               ELSE IF QSign(raw) < 0 THEN Zero ELSE raw
                 c_min == Div(QMul(QMul(QMul(QMul(i_out, duty_cycle),
                                             QSub(QInt(1), duty_cycle)),
                                        QInt(1000)), QInt(1000)),
                              QMul(f_sw, V_pp_max))
             IN  IF IsExc(c_min) THEN c_min ELSE Quantity(c_min, "uF")

get_min_input_capacitance_for_ripple_reduction(v_in, v_out, i_out, efficiency, f_sw, V_pp_max) ==
    LET duty_cycle == get_duty_cycle(v_in, v_out, efficiency)
    IN  IF IsExc(duty_cycle) THEN duty_cycle
        ELSE LET c_min == Div(QMul(QMul(QMul(QMul(i_out, duty_cycle),
                                             QSub(QInt(1), duty_cycle)),
                                        QInt(1000)), QInt(1000)),
                              QMul(f_sw, V_pp_max))
             IN  IF IsExc(c_min) THEN c_min ELSE Quantity(c_min, "uF")

get_min_input_bulk_capacitance_parasitics_only_without_inductor(v_in, v_out, efficiency, max_output_transient_current, max_allowed_voltage_change, input_filter_inductance) ==
    LET ratio == Div(v_out, QMul(v_in, efficiency))
    IN  IF IsExc(ratio) THEN ratio
        ELSE LET input_current_transient == QMul(ratio, max_output_transient_current)
                 input_inductance == IF input_filter_inductance.n = 0 THEN QInt(50)
                                     ELSE input_filter_inductance
                 c_min == Div(QMul(QMul(QDec(121, 2), Sq(input_current_transient)),
                                   QMul(input_inductance, QDec(1, 9))),
                              Sq(max_allowed_voltage_change))
             IN  IF IsExc(c_min) THEN c_min ELSE To(Quantity(c_min, "F"), "uF")

get_min_input_bulk_capacitance_current_not_squared(v_in, v_out, efficiency, max_output_transient_current, max_allowed_voltage_change, input_filter_inductance) ==
    LET ratio == Div(v_out, QMul(v_in, efficiency))
    IN  IF IsExc(ratio) THEN ratio
        ELSE LET input_current_transient == QMul(ratio, max_output_transient_current)
                 input_inductance == QAdd(QInt(50), input_filter_inductance)
                 c_min == Div(QMul(QMul(QDec(121, 2), input_current_transient),
                                   QMul(input_inductance, QDec(1, 9))),
                              Sq(max_allowed_voltage_change))
             IN  IF IsExc(c_min) THEN c_min ELSE To(Quantity(c_min, "F"), "uF")

get_min_input_bulk_capacitance(v_in, v_out, efficiency, max_output_transient_current, max_allowed_voltage_change, input_filter_inductance) ==
    LET ratio == Div(v_out, QMul(v_in, efficiency))
    IN  IF IsExc(ratio) THEN ratio
        ELSE LET input_current_transient == QMul(ratio, max_output_transient_current)
                 input_inductance == QAdd(QInt(50), input_filter_inductance)
                 c_min == Div(QMul(QMul(QDec(121, 2), Sq(input_current_transient)),
                                   QMul(input_inductance, QDec(1, 9))),
                              Sq(max_allowed_voltage_change))
             IN  IF IsExc(c_min) THEN c_min ELSE To(Quantity(c_min, "F"), "uF")

(***************************************************************************)
(* The command line                                                        *)
(***************************************************************************)
\* At most this many of the nine flags are supplied in a run.
MaxFlags == 3

\* The dest names of the nine add_argument calls, in their order.
Flags == <<"v_in", "v_out", "i_out", "f_sw", "efficiency", "v_pp_max",
           "i_out_tr_max", "v_out_tr_max_allowed", "input_inductor">>

FlagSet == {Flags[i] : i \in 1..Len(Flags)}

\* A flag that is not on the command line, and a value float() rejects.
Absent == [absent |-> TRUE]

NonNumeric == [text |-> "abc"]

IsAbsent(t) == "absent" \in DOMAIN t

IsNonNumeric(t) == "text" \in DOMAIN t

\* The numeric values a run may supply for each flag.
Values(f) ==
    CASE f = "v_in"                 -> {QInt(12), QInt(0), QInt(-24)}
      [] f = "v_out"                -> {QInt(0), QInt(6), QInt(12), QInt(18)}
      [] f = "i_out"                -> {QInt(1), QInt(-2)}
      [] f = "f_sw"                 -> {QInt(1000000), QInt(0), QInt(-500000)}
      [] f = "efficiency"           -> {QInt(1), QDec(5, 1), QInt(0)}
      [] f = "v_pp_max"             -> {QDec(15, 2), QInt(0), QDec(-75, 3)}
      [] f = "i_out_tr_max"         -> {QInt(1), QInt(-2)}
      [] f = "v_out_tr_max_allowed" -> {QDec(2, 1), QInt(0), QDec(-1, 1)}
      [] f = "input_inductor"       -> {QInt(0), QInt(100)}

\* The option tables over the first i flags with at most k of them supplied.
RECURSIVE Options(_, _)
Options(i, k) ==
    IF i = 0 THEN {[f \in {} |-> Absent]}
    ELSE {o @@ (Flags[i] :> Absent) : o \in Options(i - 1, k)}
         \cup (IF k = 0 THEN {}
               ELSE {o @@ (Flags[i] :> t) :
                        o \in Options(i - 1, k - 1),
                        t \in Values(Flags[i]) \cup {NonNumeric}})

\* The command lines: an option table, and whether an unknown flag is given.
CommandLines ==
    {[opts |-> o, unknown |-> u] : o \in Options(Len(Flags), MaxFlags), u \in BOOLEAN}

\* The default of each add_argument call.
ParserDefault_zero_inductor(f) ==
    CASE f = "v_in"                 -> default_input_voltage
      [] f = "v_out"                -> default_output_voltage
      [] f = "i_out"                -> default_output_current
      [] f = "f_sw"                 -> default_switching_frequency
      [] f = "efficiency"           -> default_efficiency
      [] f = "v_pp_max"             -> default_v_pp_max
      [] f = "i_out_tr_max"         -> default_i_out_tr_max
      [] f = "v_out_tr_max_allowed" -> default_v_out_tr_max_allowed
      [] f = "input_inductor"       -> Zero

ParserDefault(f) ==
    CASE f = "v_in"                 -> default_input_voltage
      [] f = "v_out"                -> default_output_voltage
      [] f = "i_out"                -> default_output_current
      [] f = "f_sw"                 -> default_switching_frequency
      [] f = "efficiency"           -> default_efficiency
      [] f = "v_pp_max"             -> default_v_pp_max
      [] f = "i_out_tr_max"         -> default_i_out_tr_max
      [] f = "v_out_tr_max_allowed" -> default_v_out_tr_max_allowed
      [] f = "input_inductor"       -> default_v_out_tr_max_allowed

\* parse_args rejects the command line (and exits with the usage message).
Rejected(cl) ==
    cl.unknown \/ \E f \in FlagSet : IsNonNumeric(cl.opts[f])

\* The namespace parse_args returns for an accepted command line.
Namespace(cl) ==
    [f \in FlagSet |-> IF IsAbsent(cl.opts[f]) THEN ParserDefault(f) ELSE cl.opts[f]]

(***************************************************************************)
(* Output                                                                  *)
(***************************************************************************)
\* f"{x:.<k>f}": the digits of x rounded to k decimals.
FormatFloat(label, x, k) ==
    [label |-> label, digits |-> QRound(x, k), decimals |-> k, unit |-> ""]

\* f"{q:~.<k>f}": the magnitude to k decimals and the unit's abbreviation.
FormatQuantity(label, q, k) ==
    [label |-> label, digits |-> QRound(q.mag, k), decimals |-> k, unit |-> q.unit]

(***************************************************************************)
(* One run of main()                                                       *)
(***************************************************************************)
VARIABLES
    pc,                   \* the statement main is about to execute
    argv,                 \* the command line
    args,                 \* the parsed namespace
    duty_cycle,           \* main's locals
    input_ceramic_c_min,
    input_bulk_c_min,
    calls,                \* the computations invoked so far
    stdout,               \* the lines printed
    stderr,               \* "", "usage" or the exception of the traceback
    exit_code             \* the process's exit status, once exited

vars == <<pc, argv, args, duty_cycle, input_ceramic_c_min, input_bulk_c_min,
          calls, stdout, stderr, exit_code>>

Init ==
    /\ pc = "parse_args"
    /\ argv \in CommandLines
    /\ args = None
    /\ duty_cycle = None
    /\ input_ceramic_c_min = None
    /\ input_bulk_c_min = None
    /\ calls = <<>>
    /\ stdout = <<>>
    /\ stderr = ""
    /\ exit_code = None

\* An uncaught exception: the traceback goes to stderr, the exit status is 1.
Uncaught(e) ==
    /\ pc' = "exited"
    /\ stderr' = e.exc
    /\ exit_code' = [status |-> 1]

ParseArgs_continues_after_error ==
    /\ pc = "parse_args"
    /\ IF Rejected(argv)
       THEN /\ args' = [f \in FlagSet |-> ParserDefault(f)]
            /\ stderr' = "usage"
       ELSE /\ args' = Namespace(argv)
            /\ stderr' = stderr
    /\ pc' = "duty_cycle"
    /\ UNCHANGED <<argv, duty_cycle, input_ceramic_c_min, input_bulk_c_min,
                   calls, stdout, exit_code>>

\* args = parser.parse_args()
ParseArgs ==
    /\ pc = "parse_args"
    /\ IF Rejected(argv)
       THEN /\ pc' = "exited"
            /\ stderr' = "usage"
            /\ exit_code' = [status |-> 2]
            /\ args' = args
       ELSE /\ pc' = "duty_cycle"
            /\ args' = Namespace(argv)
            /\ UNCHANGED <<stderr, exit_code>>
    /\ UNCHANGED <<argv, duty_cycle, input_ceramic_c_min, input_bulk_c_min,
                   calls, stdout>>

\* duty_cycle = get_duty_cycle(...)
CallDutyCycle ==
    /\ pc = "duty_cycle"
    /\ calls' = Append(calls, "get_duty_cycle")
    /\ LET r == get_duty_cycle(args.v_in, args.v_out, args.efficiency)
       IN  IF IsExc(r)
           THEN Uncaught(r) /\ duty_cycle' = duty_cycle
           ELSE /\ duty_cycle' = r
                /\ pc' = "ceramic"
                /\ UNCHANGED <<stderr, exit_code>>
    /\ UNCHANGED <<argv, args, input_ceramic_c_min, input_bulk_c_min, stdout>>

\* input_ceramic_c_min = get_min_input_capacitance_for_ripple_reduction(...)
CallCeramic ==
    /\ pc = "ceramic"
    /\ calls' = Append(calls, "get_min_input_capacitance_for_ripple_reduction")
    /\ LET r == get_min_input_capacitance_for_ripple_reduction(
                    args.v_in, args.v_out, args.i_out, args.efficiency,
                    args.f_sw, args.v_pp_max)
       IN  IF IsExc(r)
           THEN Uncaught(r) /\ input_ceramic_c_min' = input_ceramic_c_min
           ELSE /\ input_ceramic_c_min' = r
                /\ pc' = "bulk"
                /\ UNCHANGED <<stderr, exit_code>>
    /\ UNCHANGED <<argv, args, duty_cycle, input_bulk_c_min, stdout>>

\* input_bulk_c_min = get_min_input_bulk_capacitance(...)
CallBulk ==
    /\ pc = "bulk"
    /\ calls' = Append(calls, "get_min_input_bulk_capacitance")
    /\ LET r == get_min_input_bulk_capacitance(
                    args.v_in, args.v_out, args.efficiency, args.i_out_tr_max,
                    args.v_out_tr_max_allowed, args.input_inductor)
       IN  IF IsExc(r)
           THEN Uncaught(r) /\ input_bulk_c_min' = input_bulk_c_min
           ELSE /\ input_bulk_c_min' = r
                /\ pc' = "print_duty_cycle"
                /\ UNCHANGED <<stderr, exit_code>>
    /\ UNCHANGED <<argv, args, duty_cycle, input_ceramic_c_min, stdout>>

\* print(f"Duty Cycle: {duty_cycle:.2f}")
PrintDutyCycle ==
    /\ pc = "print_duty_cycle"
    /\ stdout' = Append(stdout, FormatFloat("Duty Cycle", duty_cycle, 2))
    /\ pc' = "print_ceramic"
    /\ UNCHANGED <<argv, args, duty_cycle, input_ceramic_c_min, input_bulk_c_min,
                   calls, stderr, exit_code>>

\* print(f"Min ceramic capacitance: {input_ceramic_c_min:~.3f}")
PrintCeramic ==
    /\ pc = "print_ceramic"
    /\ stdout' = Append(stdout,
                        FormatQuantity("Min ceramic capacitance", input_ceramic_c_min, 3))
    /\ pc' = "print_bulk"
    /\ UNCHANGED <<argv, args, duty_cycle, input_ceramic_c_min, input_bulk_c_min,
                   calls, stderr, exit_code>>

\* print(f"Min bulk capacitance: {input_bulk_c_min:~.1f}")
PrintBulk ==
    /\ pc = "print_bulk"
    /\ stdout' = Append(stdout,
                        FormatQuantity("Min bulk capacitance", input_bulk_c_min, 1))
    /\ pc' = "return"
    /\ UNCHANGED <<argv, args, duty_cycle, input_ceramic_c_min, input_bulk_c_min,
                   calls, stderr, exit_code>>

\* main returns and the interpreter exits.
Return ==
    /\ pc = "return"
    /\ pc' = "exited"
    /\ exit_code' = [status |-> 0]
    /\ UNCHANGED <<argv, args, duty_cycle, input_ceramic_c_min, input_bulk_c_min,
                   calls, stdout, stderr>>

Next ==
    \/ ParseArgs
    \/ CallDutyCycle
    \/ CallCeramic
    \/ CallBulk
    \/ PrintDutyCycle
    \/ PrintCeramic
    \/ PrintBulk
    \/ Return

Spec == Init /\ [][Next]_vars

(***************************************************************************)
(* Properties                                                              *)
(***************************************************************************)
\* The n-th computation of main has been invoked.
Invoked(n) == Len(calls) >= n

One == QInt(1)

Half == QDec(5, 1)

\* The values a parameter can take in a run: its default and the supplied ones.
Domain(f) == Values(f) \cup {ParserDefault(f)}

\* C1: for v_in > 0, v_out >= 0 and efficiency > 0, get_duty_cycle returns a
\* value (no error) that is exactly v_out / (v_in * efficiency): multiplied by
\* the divisor v_in * efficiency it gives back v_out, whatever its size.
C1_DutyCycleIsQuotient ==
    (/\ Invoked(1)
     /\ QSign(args.v_in) > 0
     /\ QSign(args.v_out) >= 0
     /\ QSign(args.efficiency) > 0)
    => /\ ~IsNone(duty_cycle)
       /\ QMul(duty_cycle, QMul(args.v_in, args.efficiency)) = args.v_out

\* A duty cycle above 1 has been returned for positive inputs.
C1_Witness ==
    /\ Invoked(1)
    /\ QSign(args.v_in) > 0
    /\ QSign(args.efficiency) > 0
    /\ args.efficiency # One
    /\ ~IsNone(duty_cycle)
    /\ QLt(One, duty_cycle)

\* C2: with f_sw # 0, V_pp_max # 0 and v_in * efficiency # 0 the ceramic
\* estimate is a quantity in microfarads whose magnitude m satisfies
\* m * (f_sw * V_pp_max) = i_out * duty * (1 - duty) * 1e6, duty being the value
\* get_duty_cycle returned for the same v_in, v_out and efficiency.
C2_CeramicFormula ==
    (/\ Invoked(2)
     /\ args.f_sw # Zero
     /\ args.v_pp_max # Zero)
    => /\ ~IsNone(input_ceramic_c_min)
       /\ input_ceramic_c_min.unit = "uF"
       /\ QMul(input_ceramic_c_min.mag, QMul(args.f_sw, args.v_pp_max))
            = QMul(QMul(QMul(args.i_out, duty_cycle), QSub(One, duty_cycle)),
                   QInt(1000000))

\* A non-zero ceramic estimate has been returned.
C2_Witness ==
    /\ ~IsNone(input_ceramic_c_min)
    /\ input_ceramic_c_min.mag # Zero
    /\ args.f_sw # default_switching_frequency

\* C3: with v_in * efficiency # 0 and max_allowed_voltage_change # 0 the bulk
\* estimate is a quantity in microfarads whose magnitude m satisfies
\* m * dv^2 * (v_in * efficiency)^2
\*   = 1e6 * 1.21 * (v_out * i_tr)^2 * (50 + L) * 1e-9,
\* the 50 nH being added for every L, zero or not.
C3_BulkFormula ==
    (/\ Invoked(3)
     /\ args.v_out_tr_max_allowed # Zero)
    => /\ ~IsNone(input_bulk_c_min)
       /\ input_bulk_c_min.unit = "uF"
       /\ QMul(QMul(input_bulk_c_min.mag, Sq(args.v_out_tr_max_allowed)),
               Sq(QMul(args.v_in, args.efficiency)))
            = QMul(QMul(QMul(QInt(1000000), QDec(121, 2)),
                        Sq(QMul(args.v_out, args.i_out_tr_max))),
                   QMul(QAdd(QInt(50), args.input_inductor), QDec(1, 9)))

\* A non-zero bulk estimate has been returned for a non-zero input inductor.
C3_Witness ==
    /\ ~IsNone(input_bulk_c_min)
    /\ input_bulk_c_min.mag # Zero
    /\ args.input_inductor = QInt(100)

\* The parsed parameters are out of their domain: a zero or negative v_in,
\* efficiency, f_sw, v_pp_max or v_out_tr_max_allowed.
C4_DomainError ==
    /\ ~IsNone(args)
    /\ \E f \in {"v_in", "efficiency", "f_sw", "v_pp_max", "v_out_tr_max_allowed"} :
          QSign(args[f]) <= 0

\* C4: a run whose parameters are out of their domain never ends as a silent
\* success: it never exits 0 having printed three lines whose values all
\* look ordinary (none negative).
C4_NeverSilentSuccess ==
    ~(/\ pc = "exited"
      /\ C4_DomainError
      /\ exit_code = [status |-> 0]
      /\ Len(stdout) = 3
      /\ \A i \in 1..3 : stdout[i].digits >= 0)

\* C5: the bulk estimate is quadratic in max_output_transient_current and
\* inverse-quadratic in max_allowed_voltage_change: with the current doubled
\* the function returns 4 times the value, with the voltage change doubled a
\* quarter of it; a non-zero value is not doubled by doubling the inductance.
C5_BulkScaling ==
    ~IsNone(input_bulk_c_min)
    => LET m == input_bulk_c_min.mag
           two == QInt(2)
           i2 == get_min_input_bulk_capacitance(
                     args.v_in, args.v_out, args.efficiency,
                     QMul(two, args.i_out_tr_max), args.v_out_tr_max_allowed,
                     args.input_inductor)
           v2 == get_min_input_bulk_capacitance(
                     args.v_in, args.v_out, args.efficiency, args.i_out_tr_max,
                     QMul(two, args.v_out_tr_max_allowed), args.input_inductor)
           l2 == get_min_input_bulk_capacitance(
                     args.v_in, args.v_out, args.efficiency, args.i_out_tr_max,
                     args.v_out_tr_max_allowed, QMul(two, args.input_inductor))
       IN  /\ i2.mag = QMul(QInt(4), m)
           /\ QMul(QInt(4), v2.mag) = m
           /\ m # Zero => l2.mag # QMul(two, m)

\* A non-zero bulk estimate with non-default current, voltage change and inductor.
C5_Witness ==
    /\ ~IsNone(input_bulk_c_min)
    /\ input_bulk_c_min.mag # Zero
    /\ args.i_out_tr_max # default_i_out_tr_max
    /\ args.v_out_tr_max_allowed # default_v_out_tr_max_allowed
    /\ args.input_inductor = QInt(100)

\* The other (v_in, v_out, efficiency) combinations, for the i_out, f_sw and
\* V_pp_max of the run, each with its duty cycle and ceramic estimate.
C6_Others ==
    {[d |-> get_duty_cycle(vi, vo, ef),
      c |-> get_min_input_capacitance_for_ripple_reduction(
                vi, vo, args.i_out, ef, args.f_sw, args.v_pp_max)] :
        <<vi, vo, ef>> \in {t \in Domain("v_in") \X Domain("v_out") \X Domain("efficiency") :
                               QMul(t[1], t[3]) # Zero}}

\* C6: for positive i_out, f_sw and V_pp_max the ceramic estimate is symmetric
\* in the duty cycle around 0.5 and maximal there: a combination whose duty
\* cycle is 1 - d gives the estimate of the run with duty cycle d, and no
\* combination gives more than a run whose duty cycle is 0.5.
C6_CeramicSymmetricMaxAtHalf ==
    (/\ ~IsNone(input_ceramic_c_min)
     /\ QSign(args.i_out) > 0
     /\ QSign(args.f_sw) > 0
     /\ QSign(args.v_pp_max) > 0)
    => \A o \in C6_Others :
          /\ o.d = QSub(One, duty_cycle) => o.c.mag = input_ceramic_c_min.mag
          /\ duty_cycle = Half => QLe(o.c.mag, input_ceramic_c_min.mag)

\* A run with duty cycle 0.5, with other combinations of duty cycle 0.25 and
\* 0.75 that give a smaller estimate.
C6_Witness ==
    /\ ~IsNone(input_ceramic_c_min)
    /\ QSign(args.i_out) > 0
    /\ QSign(args.f_sw) > 0
    /\ QSign(args.v_pp_max) > 0
    /\ duty_cycle = Half
    /\ \E o \in C6_Others : o.d = QDec(25, 2) /\ QLt(o.c.mag, input_ceramic_c_min.mag)
    /\ \E o \in C6_Others : o.d = QDec(75, 2) /\ QLt(o.c.mag, input_ceramic_c_min.mag)

\* C7: over v_in > 0, v_out >= 0, efficiency > 0 the duty cycle does not
\* decrease when v_out is raised and does not increase when v_in or the
\* efficiency is raised, the other two arguments held fixed.
C7_DutyCycleMonotone ==
    (/\ ~IsNone(duty_cycle)
     /\ QSign(args.v_in) > 0
     /\ QSign(args.v_out) >= 0
     /\ QSign(args.efficiency) > 0)
    => /\ \A vo \in Domain("v_out") :
             QLe(args.v_out, vo)
             => QLe(duty_cycle, get_duty_cycle(args.v_in, vo, args.efficiency))
       /\ \A vi \in Domain("v_in") :
             QLe(args.v_in, vi)
             => QLe(get_duty_cycle(vi, args.v_out, args.efficiency), duty_cycle)
       /\ \A ef \in Domain("efficiency") :
             QLe(args.efficiency, ef)
             => QLe(get_duty_cycle(args.v_in, args.v_out, ef), duty_cycle)

\* A run whose duty cycle strictly rises with a higher v_out and strictly
\* falls with a higher v_in and with a higher efficiency.
C7_Witness ==
    /\ ~IsNone(duty_cycle)
    /\ QSign(args.v_in) > 0
    /\ QSign(args.v_out) > 0
    /\ QSign(args.efficiency) > 0
    /\ \E vo \in Domain("v_out") :
          QLt(duty_cycle, get_duty_cycle(args.v_in, vo, args.efficiency))
    /\ \E vi \in Domain("v_in") :
          QLt(args.v_in, vi)
          /\ QLt(get_duty_cycle(vi, args.v_out, args.efficiency), duty_cycle)
    /\ \E ef \in Domain("efficiency") :
          QLt(args.efficiency, ef)
          /\ QLt(get_duty_cycle(args.v_in, args.v_out, ef), duty_cycle)

\* The order of main's computations and of its output lines.
C8_CallOrder ==
    <<"get_duty_cycle", "get_min_input_capacitance_for_ripple_reduction",
      "get_min_input_bulk_capacitance">>

C8_LineOrder == <<"Duty Cycle", "Min ceramic capacitance", "Min bulk capacitance">>

\* C8: the steps of main occur in a fixed order.  Nothing is computed or
\* printed before parsing is over; a rejected command line ends the run with
\* the usage error, no computation invoked and no line printed; the
\* computations are invoked in the order duty cycle, ceramic, bulk; a line is
\* printed only after all three have returned, the lines come in the order
\* Duty Cycle, Min ceramic capacitance, Min bulk capacitance, and a run that
\* has ended has printed all three lines (exit status 0) or none.
C8_FixedOrder ==
    /\ Len(calls) <= 3
    /\ \A i \in 1..Len(calls) : calls[i] = C8_CallOrder[i]
    /\ Len(stdout) <= 3
    /\ \A i \in 1..Len(stdout) : stdout[i].label = C8_LineOrder[i]
    /\ pc = "parse_args" => calls = <<>> /\ stdout = <<>> /\ IsNone(args)
    /\ (Rejected(argv) /\ pc # "parse_args")
       => /\ pc = "exited"
          /\ stderr = "usage"
          /\ exit_code = [status |-> 2]
          /\ calls = <<>>
          /\ stdout = <<>>
    /\ stdout # <<>>
       => /\ Len(calls) = 3
          /\ ~IsNone(duty_cycle)
          /\ ~IsNone(input_ceramic_c_min)
          /\ ~IsNone(input_bulk_c_min)
    /\ pc = "exited"
       => \/ exit_code = [status |-> 0] /\ Len(stdout) = 3
          \/ exit_code # [status |-> 0] /\ stdout = <<>>

\* A run that printed its three lines and exited.
C8_Witness ==
    /\ pc = "exited"
    /\ Len(calls) = 3
    /\ Len(stdout) = 3

\* The defaults of the flags as decimal literals.
C9_Default(f) ==
    CASE f = "v_in"                 -> QInt(24)
      [] f = "v_out"                -> QInt(5)
      [] f = "i_out"                -> QInt(2)
      [] f = "f_sw"                 -> QInt(500000)
      [] f = "efficiency"           -> QDec(9, 1)
      [] f = "v_pp_max"             -> QDec(75, 3)
      [] f = "i_out_tr_max"         -> QInt(2)
      [] f = "v_out_tr_max_allowed" -> QDec(1, 1)
      [] f = "input_inductor"       -> QDec(1, 1)

\* C9: every omitted flag takes its default, and the default of
\* --input-inductor is the constant 0.1 (an effective inductance of 50.1 nH in
\* the bulk estimate) whatever --v-out-tr-max-allowed is given; a supplied
\* value always replaces the default.
C9_Defaults ==
    ~IsNone(args)
    => /\ \A f \in FlagSet :
             args[f] = IF IsAbsent(argv.opts[f]) THEN C9_Default(f) ELSE argv.opts[f]
       /\ (IsAbsent(argv.opts["input_inductor"]) /\ ~IsNone(input_bulk_c_min))
          => QMul(QMul(input_bulk_c_min.mag, Sq(args.v_out_tr_max_allowed)),
                  Sq(QMul(args.v_in, args.efficiency)))
               = QMul(QMul(QMul(QInt(1000000), QDec(121, 2)),
                           Sq(QMul(args.v_out, args.i_out_tr_max))),
                      QMul(QDec(501, 1), QDec(1, 9)))

\* A bulk estimate computed without --input-inductor and with a
\* --v-out-tr-max-allowed other than 0.1.
C9_Witness ==
    /\ ~IsNone(input_bulk_c_min)
    /\ input_bulk_c_min.mag # Zero
    /\ IsAbsent(argv.opts["input_inductor"])
    /\ ~IsAbsent(argv.opts["v_out_tr_max_allowed"])
    /\ args.v_out_tr_max_allowed = QDec(2, 1)

\* C10: for positive i_out, f_sw and V_pp_max the ceramic estimate is computed
\* from the duty cycle as returned, without clamping or validation, and the
\* call returns a value (raises nothing): it is positive exactly when 0 < duty < 1, zero when duty
\* is 0 or 1 (v_in = 12, v_out = 12, efficiency = 1 gives duty 1 and
\* capacitance 0) and negative when duty > 1.
C10_CeramicSign ==
    (/\ Invoked(2)
     /\ QSign(args.i_out) > 0
     /\ QSign(args.f_sw) > 0
     /\ QSign(args.v_pp_max) > 0)
    => /\ ~IsNone(input_ceramic_c_min)
       /\ QSign(input_ceramic_c_min.mag) > 0
          <=> (QSign(duty_cycle) > 0 /\ QLt(duty_cycle, One))
       /\ (duty_cycle = Zero \/ duty_cycle = One) => input_ceramic_c_min.mag = Zero
       /\ QLt(One, duty_cycle) => QSign(input_ceramic_c_min.mag) < 0
       /\ (args.v_in = QInt(12) /\ args.v_out = QInt(12) /\ args.efficiency = One)
          => duty_cycle = One /\ input_ceramic_c_min.mag = Zero

\* A negative ceramic estimate returned for a duty cycle above 1.
C10_Witness ==
    /\ ~IsNone(input_ceramic_c_min)
    /\ QSign(args.i_out) > 0
    /\ QSign(args.f_sw) > 0
    /\ QSign(args.v_pp_max) > 0
    /\ QLt(One, duty_cycle)
    /\ QSign(input_ceramic_c_min.mag) < 0

=============================================================================
